---- MODULE Spec2Model ----
(***************************************************************************)
(* RPIWeatherStreaming: the asynchronous sensor cache of weather_sensor.py  *)
(* (WeatherSensor) and the batch loop of weather_main.py                    *)
(* (WeatherStreamingApp).                                                   *)
(*                                                                          *)
(* Execution contexts: the background threads created by                    *)
(* _start_sensor_thread (each runs _sensor_update_loop) and one foreground  *)
(* path (the caller of read_sensor_data / cleanup).  Every Python statement *)
(* that touches shared state is one step, so that the interleavings the     *)
(* interpreter allows are the interleavings of the model; the statements of *)
(* a `with self._sensor_cache_lock` block are separate steps taken while    *)
(* the lock is owned.                                                       *)
(***************************************************************************)
EXTENDS Integers, Sequences, FiniteSets, TLC

\* ------------------------------------------------------------------ bounds
\* Thread objects _start_sensor_thread can create in one run.
MaxThreads == 2
\* Hardware polls that return in one run (caps update_count).
MaxRefresh == 3
\* Clock readings: time.time() ranges over 0..MaxTime.
MaxTime == 1
\* Distinct hardware readings a poll can deliver: 1..MaxReading.
MaxReading == 2
\* Iterations of the 100 ms tick loop (the code runs int(3.0 * 10) = 30).
TicksPerInterval == 2
\* Readings per batch the application can be configured with: 1..MaxBatch.
MaxBatch == 2
\* Configured batch intervals, in clock units: 0..MaxInterval.
MaxInterval == 1
\* Cycles of the main loop in one run (caps batch_count).
MaxCycles == 10
\* Batches the sink rejects in one run.
MaxFailures == 1
\* Values a system metric can be computed to: 1..MaxMetric.
MaxMetric == 1
\* Seconds the clock of the metrics cache runs after construction.
MaxEpoch == 180
\* Timed cycle: batch sizes 1..MaxPaceBatch.
MaxPaceBatch == 5
\* Timed cycle: intervals of 0..MaxPaceInterval seconds.
MaxPaceInterval == 6
\* Timed cycle: seconds per cycle spent outside the requested sleeps.
MaxWork == 1

\* --------------------------------------------------------------- constants
\* The six sensor fields, in the order lines 335-340 and 362-367 touch them.
Fields == <<"temperature", "humidity", "pressure", "device_temperature", "dewpoint", "lux">>
NumFields == 6
\* The value lines 306-311 give every local before the poll.
DefaultValue == 0
Threads == 1 .. MaxThreads
\* self._sensor_thread = None
NoThread == 0
\* Lock owners: 0 is "unlocked", a thread id, or the foreground path.
Unlocked == 0
Foreground == MaxThreads + 1
Readings == 1 .. MaxReading

VARIABLES
    simulate,               \* self.simulate
    sensor_cache,           \* self._sensor_cache (values, last_update, update_count)
    cache_cycle,            \* per field: the refresh cycle that stored it (history)
    lock,                   \* owner of self._sensor_cache_lock
    sensor_thread,          \* self._sensor_thread (the Thread object last created)
    sensor_thread_running,  \* self._sensor_thread_running
    t_pc,                   \* per thread: position in _sensor_update_loop
    t_local,                \* per thread: locals of _update_sensor_cache
    cycles,                 \* refresh cycles begun so far (history)
    completed,              \* refresh cycles completed so far (history)
    stop_requested,         \* line 272 has run (history)
    now,                    \* time.time()
    late_writes,            \* per thread: refreshes that stored after the stop (history)
    fg_pc,                  \* foreground position inside a WeatherSensor call
    fg_local,               \* foreground locals of read_sensor_data
    app_pc,                 \* position of WeatherStreamingApp.run ("none": no app)
    config,                 \* batch_size, interval, fast_mode (lines 56-58)
    running,                \* self.running
    batch_count,            \* batch_count of run
    batch_start,            \* batch_start of run
    batch,                  \* the list read_batch is filling / readings of run
    channel,                \* state of the ingestion channel of the client
    result,                 \* the value run is about to return
    exit_code,              \* the value run has returned (-1: not yet)
    submitted,              \* cycle numbers passed to insert_rows, in order (history)
    rejected,               \* cycles whose insert_rows raised (history)
    sd_log,                 \* shutdown steps attempted, in order (history)
    sig,                    \* the first stop signal received inside a cycle (history)
    epoch,                  \* time.time() as _update_system_metrics_cache reads it
    metrics,                \* self._system_metrics_cache
    m_outcome,              \* per metric: what the last refresh computed (history)
    m_ret,                  \* what the last getter call returned (history)
    m_rec,                  \* refresh timestamps behind the metrics of the record
                            \* read_sensor_data is building, in getter order (history)
    p_cfg,                  \* timed cycle: batch_size, interval, fast_mode
    p_pc,                   \* timed cycle: position in run / read_batch
    p_collected,            \* timed cycle: len(batch) in read_batch
    p_delays,               \* timed cycle: the sleeps of read_batch so far (history)
    p_elapsed,              \* timed cycle: time since batch_start, in ticks
    p_busy,                 \* timed cycle: time spent outside requested sleeps (history)
    p_sleep,                \* timed cycle: sleep_time of line 180, in ticks
    p_period                \* timed cycle: length of the previous cycle (history)

cache_vars == <<simulate, sensor_cache, cache_cycle, lock, sensor_thread,
                sensor_thread_running, t_pc, t_local, cycles, completed, stop_requested,
                late_writes, now, fg_pc, fg_local>>

app_vars == <<app_pc, config, running, batch_count, batch_start, batch, channel, result,
              exit_code, submitted, rejected, sd_log, sig>>

metric_vars == <<epoch, metrics, m_outcome, m_ret, m_rec>>

pace_vars == <<p_cfg, p_pc, p_collected, p_delays, p_elapsed, p_busy, p_sleep, p_period>>

vars == <<cache_vars, app_vars, metric_vars, pace_vars>>

\* ------------------------------------------------------------ WeatherSensor
\* All six locals at the value lines 306-311 give them.
Defaults == [i \in 1 .. NumFields |-> DefaultValue]

\* Locals of one _update_sensor_cache call, and its history: checked, the call
\* was made from line 293, behind the running check of line 292 (FALSE for
\* line 282); failed, the poll raised; cycle, the number of this refresh;
\* late, the lock was taken after the stop request.
FreshLocal(checked) ==
    [vals |-> Defaults, idx |-> 0, tmp |-> 0, tick |-> 0, failed |-> FALSE,
     checked |-> checked, cycle |-> 0, late |-> FALSE]

\* Locals of a thread that is not inside _update_sensor_cache.
IdleLocal == FreshLocal(FALSE)

\* Locals of read_sensor_data before the copy.
\* ts: `now` of line 358.
\* polling (history): a hardware poll was in progress when the lock was taken.
FreshRead ==
    [ts |-> 0, vals |-> Defaults, cyc |-> Defaults, idx |-> 0, age |-> 0, polling |-> FALSE]

\* Thread.is_alive(): started and not yet returned from _sensor_update_loop.
IsAlive(t) == t_pc[t] \notin {"unborn", "exited"}

\* threading.Lock.acquire can proceed.
LockFreeNoExclusion(owner) == TRUE
LockFree(owner) == owner = Unlocked

\* The lock owner while thread t polls the hardware: lines 303-331 run before
\* the `with` of line 334, so entering the refresh leaves the lock alone.
EntryLockHeldAcrossPoll(t, owner) == t
EntryLock(t, owner) == owner

\* A background thread's read of self._sensor_thread_running (lines 284, 288
\* and 292 read the attribute afresh each time).
FlagUpIgnoringStop(flag) == TRUE
FlagUp(flag) == flag

\* Line 342: the counter after `update_count += 1`, from the value loaded.
CountAfterForgotten(count) == count
CountAfter(count) == count + 1

\* __init__ (lines 42-130): caches at their initial values; on a real sensor
\* the constructor has called _start_sensor_thread once (line 110).
SensorInit ==
    /\ simulate \in BOOLEAN
    /\ sensor_cache = [temperature |-> 0, humidity |-> 0, pressure |-> 0,
                       device_temperature |-> 0, dewpoint |-> 0, lux |-> 0,
                       last_update |-> 0, update_count |-> 0]
    /\ cache_cycle = [f \in {Fields[i] : i \in 1 .. NumFields} |-> 0]
    /\ lock = Unlocked
    /\ sensor_thread = IF simulate THEN NoThread ELSE 1
    /\ sensor_thread_running = ~simulate
    /\ t_pc = [t \in Threads |-> IF t = 1 /\ ~simulate THEN "started" ELSE "unborn"]
    /\ t_local = [t \in Threads |-> IdleLocal]
    /\ cycles = 0
    /\ completed = 0
    /\ stop_requested = FALSE
    /\ late_writes = [t \in Threads |-> 0]
    /\ now = 0
    /\ fg_pc = "idle"
    /\ fg_local = FreshRead

\* No WeatherStreamingApp: the sensor is used on its own (as in main() of
\* weather_sensor.py, lines 466-520).
AppAbsent ==
    /\ app_pc = "none"
    /\ config = [batch_size |-> 1, interval |-> 0, fast_mode |-> FALSE]
    /\ running = FALSE
    /\ batch_count = 0
    /\ batch_start = 0
    /\ batch = <<>>
    /\ channel = "new"
    /\ result = 0
    /\ exit_code = -1
    /\ submitted = <<>>
    /\ rejected = {}
    /\ sd_log = <<>>
    /\ sig = [cycle |-> 0, collected |-> 0, early |-> FALSE]

\* _start_sensor_thread (lines 254-266), called again on a constructed sensor
\* that has not been cleaned up: no test of an existing thread.
StartSensorThread ==
    /\ fg_pc = "idle"
    /\ ~stop_requested
    /\ IF simulate
       THEN UNCHANGED <<sensor_thread_running, sensor_thread, t_pc>>
       ELSE \E t \in Threads :
               /\ t_pc[t] = "unborn"
               /\ \A u \in Threads : u < t => t_pc[u] # "unborn"
               /\ sensor_thread_running' = TRUE
               /\ sensor_thread' = t
               /\ t_pc' = [t_pc EXCEPT ![t] = "started"]
    /\ UNCHANGED <<simulate, sensor_cache, cache_cycle, lock, t_local, cycles, completed,
                   stop_requested, late_writes, now, fg_pc, fg_local>>
    /\ UNCHANGED app_vars
    /\ UNCHANGED <<metric_vars, pace_vars>>

\* _sensor_update_loop, lines 279-282: the initial read, made without any
\* test of _sensor_thread_running; _update_sensor_cache lines 303-311.
InitialRead(t) ==
    /\ t_pc[t] = "started"
    /\ t_pc' = [t_pc EXCEPT ![t] = "poll"]
    /\ t_local' = [t_local EXCEPT ![t] = FreshLocal(FALSE)]
    /\ lock' = EntryLock(t, lock)
    /\ UNCHANGED <<simulate, sensor_cache, cache_cycle, sensor_thread,
                   sensor_thread_running, cycles, completed, stop_requested, late_writes,
                   now, fg_pc, fg_local>>
    /\ UNCHANGED app_vars
    /\ UNCHANGED <<metric_vars, pace_vars>>

\* _update_sensor_cache lines 313-333: weather_hat.update and the six reads.
\* The poll has no timeout: it may never return (the step is never taken).
\* It returns a reading, or raises and leaves the six locals at their default.
Poll(t) ==
    /\ t_pc[t] = "poll"
    /\ cycles < MaxRefresh
    /\ IF simulate
       THEN t_local' = [t_local EXCEPT ![t].cycle = cycles + 1]
       ELSE \/ \E r \in Readings :
                 t_local' = [t_local EXCEPT ![t].vals = [i \in 1 .. NumFields |-> r],
                                            ![t].cycle = cycles + 1]
            \/ t_local' = [t_local EXCEPT ![t].failed = TRUE, ![t].cycle = cycles + 1]
    /\ cycles' = cycles + 1
    /\ t_pc' = [t_pc EXCEPT ![t] = "acquire"]
    /\ UNCHANGED <<simulate, sensor_cache, cache_cycle, lock, sensor_thread,
                   sensor_thread_running, completed, stop_requested, late_writes, now,
                   fg_pc, fg_local>>
    /\ UNCHANGED app_vars
    /\ UNCHANGED <<metric_vars, pace_vars>>

\* `with self._sensor_cache_lock:` of line 334.
AcquireForUpdate(t) ==
    /\ t_pc[t] = "acquire"
    /\ LockFree(lock)
    /\ lock' = t
    /\ t_pc' = [t_pc EXCEPT ![t] = "store"]
    /\ t_local' = [t_local EXCEPT ![t].idx = 1, ![t].late = stop_requested]
    /\ UNCHANGED <<simulate, sensor_cache, cache_cycle, sensor_thread,
                   sensor_thread_running, cycles, completed, stop_requested, late_writes,
                   now, fg_pc, fg_local>>
    /\ UNCHANGED app_vars
    /\ UNCHANGED <<metric_vars, pace_vars>>

\* Lines 335-340: one dictionary store per step.
StoreField(t) ==
    /\ t_pc[t] = "store"
    /\ LET i == t_local[t].idx
       IN  /\ sensor_cache' = [sensor_cache EXCEPT ![Fields[i]] = t_local[t].vals[i]]
           /\ cache_cycle' = [cache_cycle EXCEPT ![Fields[i]] = t_local[t].cycle]
           /\ IF i < NumFields
              THEN /\ t_local' = [t_local EXCEPT ![t].idx = i + 1]
                   /\ UNCHANGED t_pc
              ELSE /\ t_local' = [t_local EXCEPT ![t].idx = 0]
                   /\ t_pc' = [t_pc EXCEPT ![t] = "store_time"]
    /\ UNCHANGED <<simulate, lock, sensor_thread, sensor_thread_running, cycles,
                   completed, stop_requested, late_writes, now, fg_pc, fg_local>>
    /\ UNCHANGED app_vars
    /\ UNCHANGED <<metric_vars, pace_vars>>

\* Line 341: last_update = time.time().
StoreTime(t) ==
    /\ t_pc[t] = "store_time"
    /\ sensor_cache' = [sensor_cache EXCEPT !.last_update = now]
    /\ t_pc' = [t_pc EXCEPT ![t] = "load_count"]
    /\ UNCHANGED <<simulate, cache_cycle, lock, sensor_thread, sensor_thread_running,
                   t_local, cycles, completed, stop_requested, late_writes, now, fg_pc,
                   fg_local>>
    /\ UNCHANGED app_vars
    /\ UNCHANGED <<metric_vars, pace_vars>>

\* Line 342, first half of `update_count += 1`: load the counter.
LoadCount(t) ==
    /\ t_pc[t] = "load_count"
    /\ t_local' = [t_local EXCEPT ![t].tmp = sensor_cache.update_count]
    /\ t_pc' = [t_pc EXCEPT ![t] = "store_count"]
    /\ UNCHANGED <<simulate, sensor_cache, cache_cycle, lock, sensor_thread,
                   sensor_thread_running, cycles, completed, stop_requested, late_writes,
                   now, fg_pc, fg_local>>
    /\ UNCHANGED app_vars
    /\ UNCHANGED <<metric_vars, pace_vars>>

\* Line 342, second half: store the counter; the `with` block ends and the
\* call returns (line 344 only logs) to the `while` of line 284.
StoreCount(t) ==
    /\ t_pc[t] = "store_count"
    /\ sensor_cache' = [sensor_cache EXCEPT !.update_count = CountAfter(t_local[t].tmp)]
    /\ lock' = Unlocked
    /\ completed' = completed + 1
    /\ late_writes' = [late_writes EXCEPT ![t] = @ + (IF stop_requested THEN 1 ELSE 0)]
    /\ t_local' = [t_local EXCEPT ![t] = IdleLocal]
    /\ t_pc' = [t_pc EXCEPT ![t] = "while_check"]
    /\ UNCHANGED <<simulate, cache_cycle, sensor_thread, sensor_thread_running, cycles,
                   stop_requested, now, fg_pc, fg_local>>
    /\ UNCHANGED app_vars
    /\ UNCHANGED <<metric_vars, pace_vars>>

\* Line 284: `while self._sensor_thread_running`; line 299 when it fails.
WhileCheck(t) ==
    /\ t_pc[t] = "while_check"
    /\ t_pc' = [t_pc EXCEPT ![t] = IF FlagUp(sensor_thread_running)
                                   THEN "tick" ELSE "exited"]
    /\ UNCHANGED <<simulate, sensor_cache, cache_cycle, lock, sensor_thread,
                   sensor_thread_running, t_local, cycles, completed, stop_requested,
                   late_writes, now, fg_pc, fg_local>>
    /\ UNCHANGED app_vars
    /\ UNCHANGED <<metric_vars, pace_vars>>

\* Lines 287-290: one iteration of the tick loop: leave it when the range is
\* used up or the flag is down, else sleep 100 ms.
TickLoop(t) ==
    /\ t_pc[t] = "tick"
    /\ IF t_local[t].tick < TicksPerInterval /\ FlagUp(sensor_thread_running)
       THEN /\ t_local' = [t_local EXCEPT ![t].tick = @ + 1]
            /\ UNCHANGED t_pc
       ELSE /\ t_local' = [t_local EXCEPT ![t].tick = 0]
            /\ t_pc' = [t_pc EXCEPT ![t] = "post_tick"]
    /\ UNCHANGED <<simulate, sensor_cache, cache_cycle, lock, sensor_thread,
                   sensor_thread_running, cycles, completed, stop_requested, late_writes,
                   now, fg_pc, fg_local>>
    /\ UNCHANGED app_vars
    /\ UNCHANGED <<metric_vars, pace_vars>>

\* Lines 292-293: refresh if still running, else back to the `while`.
PostTick(t) ==
    /\ t_pc[t] = "post_tick"
    /\ IF FlagUp(sensor_thread_running)
       THEN /\ t_pc' = [t_pc EXCEPT ![t] = "poll"]
            /\ t_local' = [t_local EXCEPT ![t] = FreshLocal(TRUE)]
            /\ lock' = EntryLock(t, lock)
       ELSE /\ t_pc' = [t_pc EXCEPT ![t] = "while_check"]
            /\ UNCHANGED <<t_local, lock>>
    /\ UNCHANGED <<simulate, sensor_cache, cache_cycle, sensor_thread,
                   sensor_thread_running, cycles, completed, stop_requested, late_writes,
                   now, fg_pc, fg_local>>
    /\ UNCHANGED app_vars
    /\ UNCHANGED <<metric_vars, pace_vars>>

ThreadStep(t) ==
    \/ InitialRead(t)
    \/ Poll(t)
    \/ AcquireForUpdate(t)
    \/ StoreField(t)
    \/ StoreTime(t)
    \/ LoadCount(t)
    \/ StoreCount(t)
    \/ WhileCheck(t)
    \/ TickLoop(t)
    \/ PostTick(t)

\* ------------------------------------------------- foreground: WeatherSensor
\* read_sensor_data is called (lines 356-358).
CallRead ==
    /\ fg_pc = "idle"
    /\ fg_pc' = "rsd_acquire"
    /\ fg_local' = [FreshRead EXCEPT !.ts = now]
    /\ UNCHANGED <<simulate, sensor_cache, cache_cycle, lock, sensor_thread,
                   sensor_thread_running, t_pc, t_local, cycles, completed,
                   stop_requested, late_writes, now>>
    /\ UNCHANGED app_vars
    /\ UNCHANGED <<metric_vars, pace_vars>>

\* `with self._sensor_cache_lock:` of line 361.
AcquireForRead ==
    /\ fg_pc = "rsd_acquire"
    /\ LockFree(lock)
    /\ lock' = Foreground
    /\ fg_pc' = "rsd_copy"
    /\ fg_local' = [fg_local EXCEPT !.idx = 1,
                                    !.polling = \E t \in Threads : t_pc[t] = "poll"]
    /\ UNCHANGED <<simulate, sensor_cache, cache_cycle, sensor_thread,
                   sensor_thread_running, t_pc, t_local, cycles, completed,
                   stop_requested, late_writes, now>>
    /\ UNCHANGED app_vars
    /\ UNCHANGED <<metric_vars, pace_vars>>

\* Lines 362-367: one dictionary load per step.
CopyField ==
    /\ fg_pc = "rsd_copy"
    /\ LET i == fg_local.idx
       IN  /\ fg_local' = [fg_local EXCEPT !.vals[i] = sensor_cache[Fields[i]],
                                           !.cyc[i] = cache_cycle[Fields[i]],
                                           !.idx = IF i < NumFields THEN i + 1 ELSE 0]
           /\ fg_pc' = IF i < NumFields THEN "rsd_copy" ELSE "rsd_age"
    /\ UNCHANGED <<simulate, sensor_cache, cache_cycle, lock, sensor_thread,
                   sensor_thread_running, t_pc, t_local, cycles, completed,
                   stop_requested, late_writes, now>>
    /\ UNCHANGED app_vars
    /\ UNCHANGED <<metric_vars, pace_vars>>

\* The sensor cache after line 368, which only reads last_update.
CacheAfterAgeReadStamped(cache, current_time) == [cache EXCEPT !.last_update = current_time]
CacheAfterAgeRead(cache, current_time) == cache

\* Line 368: cache_age = time.time() - last_update; the `with` block ends.
ComputeAge ==
    /\ fg_pc = "rsd_age"
    /\ fg_local' = [fg_local EXCEPT !.age = now - sensor_cache.last_update]
    /\ sensor_cache' = CacheAfterAgeRead(sensor_cache, now)
    /\ lock' = Unlocked
    /\ fg_pc' = "rsd_return"
    /\ UNCHANGED <<simulate, cache_cycle, sensor_thread,
                   sensor_thread_running, t_pc, t_local, cycles, completed,
                   stop_requested, late_writes, now>>
    /\ UNCHANGED app_vars
    /\ UNCHANGED <<metric_vars, pace_vars>>

\* Lines 370-425: the record is built from the copies and returned.
ReturnRecord ==
    /\ fg_pc = "rsd_return"
    /\ fg_pc' = "idle"
    /\ fg_local' = FreshRead
    /\ UNCHANGED <<simulate, sensor_cache, cache_cycle, lock, sensor_thread,
                   sensor_thread_running, t_pc, t_local, cycles, completed,
                   stop_requested, late_writes, now>>
    /\ UNCHANGED app_vars
    /\ UNCHANGED <<metric_vars, pace_vars>>

\* cleanup is called (lines 452-455), also by __del__ (line 461).
CallCleanup ==
    /\ fg_pc = "idle"
    /\ fg_pc' = "stop_check"
    /\ UNCHANGED <<simulate, sensor_cache, cache_cycle, lock, sensor_thread,
                   sensor_thread_running, t_pc, t_local, cycles, completed,
                   stop_requested, late_writes, now, fg_local>>
    /\ UNCHANGED app_vars
    /\ UNCHANGED <<metric_vars, pace_vars>>

\* _stop_sensor_thread lines 270-272: request the stop if a thread object
\* exists and the flag is up; otherwise return.
RequestStop ==
    /\ fg_pc = "stop_check"
    /\ IF sensor_thread # NoThread /\ sensor_thread_running
       THEN /\ sensor_thread_running' = FALSE
            /\ stop_requested' = TRUE
            /\ fg_pc' = "stop_alive"
       ELSE /\ fg_pc' = "idle"
            /\ UNCHANGED <<sensor_thread_running, stop_requested>>
    /\ UNCHANGED <<simulate, sensor_cache, cache_cycle, lock, sensor_thread, t_pc,
                   t_local, cycles, completed, late_writes, now, fg_local>>
    /\ UNCHANGED app_vars
    /\ UNCHANGED <<metric_vars, pace_vars>>

\* Line 273: is_alive() decides whether to join.
CheckAlive ==
    /\ fg_pc = "stop_alive"
    /\ fg_pc' = IF IsAlive(sensor_thread) THEN "join" ELSE "idle"
    /\ UNCHANGED <<simulate, sensor_cache, cache_cycle, lock, sensor_thread,
                   sensor_thread_running, t_pc, t_local, cycles, completed,
                   stop_requested, late_writes, now, fg_local>>
    /\ UNCHANGED app_vars
    /\ UNCHANGED <<metric_vars, pace_vars>>

\* Line 274: join(timeout=2.0) returns when the thread has exited or when the
\* two seconds are over, whichever comes first.
Join ==
    /\ fg_pc = "join"
    /\ fg_pc' = "idle"
    /\ UNCHANGED <<simulate, sensor_cache, cache_cycle, lock, sensor_thread,
                   sensor_thread_running, t_pc, t_local, cycles, completed,
                   stop_requested, late_writes, now, fg_local>>
    /\ UNCHANGED app_vars
    /\ UNCHANGED <<metric_vars, pace_vars>>

\* The wall clock advances.
ClockTick ==
    /\ now < MaxTime
    /\ now' = now + 1
    /\ UNCHANGED <<simulate, sensor_cache, cache_cycle, lock, sensor_thread,
                   sensor_thread_running, t_pc, t_local, cycles, completed,
                   stop_requested, late_writes, fg_pc, fg_local>>
    /\ UNCHANGED app_vars
    /\ UNCHANGED <<metric_vars, pace_vars>>

\* ------------------------------------------------------ WeatherSensor.read_batch
\* Lines 375-376: round(9.0/5.0 * c + 32, 2), in hundredths of a degree.
Fahrenheit100(c) == 180 * c + 3200

\* round(x, 2) of lines 417-422, in hundredths.
Round100(x) == 100 * x

\* Lines 400-423: the fields of the record that come from the sensor cache
\* and the clock (ts of line 415).
BuildRecord(local) ==
    [ts |-> local.ts,
     temperature |-> Fahrenheit100(local.vals[1]),
     humidity |-> Round100(local.vals[2]),
     pressure |-> Round100(local.vals[3]),
     devicetemperature |-> Fahrenheit100(local.vals[4]),
     dewpoint |-> Round100(local.vals[5]),
     lux |-> Round100(local.vals[6])]

\* Line 443: `for i in range(count)` has another iteration to run.
CollectMoreWhileRunning(collected, count, flag) == collected < count /\ flag
CollectMore(collected, count, flag) == collected < count

\* Line 447: `if i < count - 1`, i the index of the record just appended.
SleepAfterEvery(i, count) == TRUE
SleepAfter(i, count) == i < count - 1

\* Line 444: batch.append(data).
AppendRecordInFront(list, data) == <<data>> \o list
AppendRecord(list, data) == Append(list, data)

\* Line 444: read_batch calls read_sensor_data (lines 356-358).
BatchRead ==
    /\ app_pc = "collect"
    /\ fg_pc = "idle"
    /\ CollectMore(Len(batch), config.batch_size, running)
    /\ fg_pc' = "rsd_acquire"
    /\ fg_local' = [FreshRead EXCEPT !.ts = now]
    /\ UNCHANGED <<simulate, sensor_cache, cache_cycle, lock, sensor_thread,
                   sensor_thread_running, t_pc, t_local, cycles, completed,
                   stop_requested, late_writes, now>>
    /\ UNCHANGED app_vars
    /\ UNCHANGED <<metric_vars, pace_vars>>

\* Lines 370-425 and 445-447: the record is returned and appended; another
\* reading follows after a sleep unless this was the last one.
BatchAppend ==
    /\ app_pc = "collect"
    /\ fg_pc = "rsd_return"
    /\ batch' = AppendRecord(batch, BuildRecord(fg_local))
    /\ fg_pc' = "idle"
    /\ fg_local' = FreshRead
    /\ app_pc' = IF SleepAfter(Len(batch), config.batch_size) THEN "batch_sleep" ELSE "collect"
    /\ UNCHANGED <<simulate, sensor_cache, cache_cycle, lock, sensor_thread,
                   sensor_thread_running, t_pc, t_local, cycles, completed,
                   stop_requested, late_writes, now>>
    /\ UNCHANGED <<config, running, batch_count, batch_start, channel, result, exit_code,
                   submitted, rejected, sd_log, sig>>
    /\ UNCHANGED <<metric_vars, pace_vars>>

\* Line 448: time.sleep(actual_interval) between two readings.
BatchSleep ==
    /\ app_pc = "batch_sleep"
    /\ app_pc' = "collect"
    /\ UNCHANGED cache_vars
    /\ UNCHANGED <<config, running, batch_count, batch_start, batch, channel, result,
                   exit_code, submitted, rejected, sd_log, sig>>
    /\ UNCHANGED <<metric_vars, pace_vars>>

\* Line 450 and lines 156-163: read_batch returns the list to run.
BatchReturn ==
    /\ app_pc = "collect"
    /\ fg_pc = "idle"
    /\ ~CollectMore(Len(batch), config.batch_size, running)
    /\ app_pc' = "insert"
    /\ UNCHANGED cache_vars
    /\ UNCHANGED <<config, running, batch_count, batch_start, batch, channel, result,
                   exit_code, submitted, rejected, sd_log, sig>>
    /\ UNCHANGED <<metric_vars, pace_vars>>

\* ------------------------------------------------------ WeatherStreamingApp
\* Batch sizes and intervals the application is configured with.
BatchSizes == 1 .. MaxBatch
Intervals == 0 .. MaxInterval

\* Line 175: `batch_count % 10 == 0`.
StatsEvery == 10

\* The positions of run inside one cycle of the loop (lines 135-184).
CyclePcs == {"collect", "batch_sleep", "insert", "stats", "pace", "cycle_sleep"}

\* The order in which shutdown attempts its steps (lines 203, 207, 212).
ShutdownOrderCloseFirst == <<"close", "stats", "cleanup">>
ShutdownOrder == <<"stats", "close", "cleanup">>

\* The position of shutdown for each step.
ShutdownPc(step) ==
    CASE step = "stats" -> "sd_stats"
      [] step = "close" -> "sd_close"
      [] step = "cleanup" -> "sd_cleanup"

\* The position after the k-th step of shutdown has succeeded.
AfterShutdownStep(k) ==
    IF k < Len(ShutdownOrder) THEN ShutdownPc(ShutdownOrder[k + 1]) ELSE "sd_done"

\* __init__ (lines 44-90): the sensor is constructed on real hardware (line
\* 73, so its thread is started), the client is constructed and the signal
\* handlers are installed; run has not been called yet.
AppInit ==
    /\ app_pc = "discover"
    /\ config \in [batch_size : BatchSizes, interval : Intervals, fast_mode : BOOLEAN]
    /\ running = FALSE
    /\ batch_count = 0
    /\ batch_start = 0
    /\ batch = <<>>
    /\ channel = "new"
    /\ result = 0
    /\ exit_code = -1
    /\ submitted = <<>>
    /\ rejected = {}
    /\ sd_log = <<>>
    /\ sig = [cycle |-> 0, collected |-> 0, early |-> FALSE]

\* The positions of run before `self.running = True` (lines 120-125).
InitPcs == {"discover", "open", "set_running"}

\* _signal_handler (lines 92-95) while run is still before line 125: the
\* flag, which is down, is set down; sig remembers that a signal came.
SignalWhileInitializing ==
    /\ app_pc \in InitPcs
    /\ running' = FALSE
    /\ sig' = [sig EXCEPT !.early = TRUE]
    /\ UNCHANGED cache_vars
    /\ UNCHANGED <<app_pc, config, batch_count, batch_start, batch, channel, result,
                   exit_code, submitted, rejected, sd_log>>
    /\ UNCHANGED <<metric_vars, pace_vars>>

\* _signal_handler (lines 92-95), for SIGINT or SIGTERM, at any moment
\* from line 125 on and before run returns.  sig remembers the first signal
\* that arrives inside a cycle: the cycle number and the number of readings
\* collected so far.
Signal ==
    /\ app_pc \notin InitPcs \cup {"returned"}
    /\ running' = FALSE
    /\ sig' = IF sig.cycle = 0 /\ running /\ app_pc \in CyclePcs
              THEN [sig EXCEPT !.cycle = batch_count, !.collected = Len(batch)]
              ELSE sig
    /\ UNCHANGED cache_vars
    /\ UNCHANGED <<app_pc, config, batch_count, batch_start, batch, channel, result,
                   exit_code, submitted, rejected, sd_log>>
    /\ UNCHANGED <<metric_vars, pace_vars>>

\* Where run goes when initialize has returned (lines 121-125): `return 1`
\* if it returned False, else on to `self.running = True`.
AfterInitializeDegrading(ok) == "set_running"
AfterInitialize(ok) == IF ok THEN "set_running" ELSE "returned"

\* The value run returns after the loop: 1 from the except clause of lines
\* 186-188 (an exception was raised in the loop), else 0 (line 193).
ReturnValueAlwaysZero(raised) == 0
ReturnValue(raised) == IF raised THEN 1 ELSE 0

\* Where initialize goes after discover_ingest_host (lines 103-109): on to
\* open_channel, or to the except clause of line 115.
AfterDiscoverSkippingOpen(ok) == AfterInitialize(ok)
AfterDiscover(ok) == IF ok THEN "open" ELSE AfterInitialize(FALSE)

\* initialize, lines 101-105: discover_ingest_host; on an exception
\* initialize returns False (115-117) and run returns 1 (121-123).
Discover ==
    /\ app_pc = "discover"
    /\ \/ /\ channel' = "discovered"
          /\ app_pc' = AfterDiscover(TRUE)
          /\ UNCHANGED exit_code
       \/ /\ app_pc' = AfterDiscover(FALSE)
          /\ exit_code' = 1
          /\ UNCHANGED channel
    /\ UNCHANGED cache_vars
    /\ UNCHANGED <<config, running, batch_count, batch_start, batch, result, submitted,
                   rejected, sd_log, sig>>
    /\ UNCHANGED <<metric_vars, pace_vars>>

\* initialize, lines 107-113: open_channel; the same on an exception.
OpenChannel ==
    /\ app_pc = "open"
    /\ \/ /\ channel' = "open"
          /\ app_pc' = AfterInitialize(TRUE)
          /\ UNCHANGED exit_code
       \/ /\ app_pc' = AfterInitialize(FALSE)
          /\ exit_code' = 1
          /\ UNCHANGED channel
    /\ UNCHANGED cache_vars
    /\ UNCHANGED <<config, running, batch_count, batch_start, batch, result, submitted,
                   rejected, sd_log, sig>>
    /\ UNCHANGED <<metric_vars, pace_vars>>

\* Lines 125-126.
SetRunning ==
    /\ app_pc = "set_running"
    /\ running' = TRUE
    /\ batch_count' = 0
    /\ app_pc' = "loop_top"
    /\ UNCHANGED cache_vars
    /\ UNCHANGED <<config, batch_start, batch, channel, result, exit_code, submitted,
                   rejected, sd_log, sig>>
    /\ UNCHANGED <<metric_vars, pace_vars>>

\* Lines 134-141: `while self.running`; a new cycle starts, or the loop ends
\* and the finally clause calls shutdown with 0 as the value to return.
LoopTop ==
    /\ app_pc = "loop_top"
    /\ IF running
       THEN /\ batch_count < MaxCycles
            /\ batch_count' = batch_count + 1
            /\ batch_start' = now
            /\ batch' = <<>>
            /\ app_pc' = "collect"
            /\ UNCHANGED result
       ELSE /\ app_pc' = ShutdownPc(ShutdownOrder[1])
            /\ result' = ReturnValue(FALSE)
            /\ UNCHANGED <<batch_count, batch_start, batch>>
    /\ UNCHANGED cache_vars
    /\ UNCHANGED <<config, running, channel, exit_code, submitted, rejected, sd_log, sig>>
    /\ UNCHANGED <<metric_vars, pace_vars>>

\* Where run goes after insert_rows (accepted: it returned; otherwise it
\* raised and lines 170-172 logged the error): the test of line 175.
AfterInsertAbortOnFailure(count, accepted) ==
    IF ~accepted THEN "sd_stats" ELSE IF count % StatsEvery = 0 THEN "stats" ELSE "pace"
AfterInsertStatsOnSuccess(count, accepted) ==
    IF count % StatsEvery = 0 /\ accepted THEN "stats" ELSE "pace"
AfterInsert(count, accepted) == IF count % StatsEvery = 0 THEN "stats" ELSE "pace"

\* Lines 166-175: insert_rows accepts the batch or raises; either way run
\* goes on to the statistics test.  `readings` is not read after line 167:
\* the list is dropped here.
InsertRows ==
    /\ app_pc = "insert"
    /\ submitted' = Append(submitted, batch_count)
    /\ \/ /\ UNCHANGED rejected
          /\ app_pc' = AfterInsert(batch_count, TRUE)
       \/ /\ Cardinality(rejected) < MaxFailures
          /\ rejected' = rejected \cup {batch_count}
          /\ app_pc' = AfterInsert(batch_count, FALSE)
    /\ batch' = <<>>
    /\ UNCHANGED cache_vars
    /\ UNCHANGED <<config, running, batch_count, batch_start, channel, result,
                   exit_code, sd_log, sig>>
    /\ UNCHANGED <<metric_vars, pace_vars>>

\* Line 176: print_statistics returns, or raises: the exception leaves the
\* loop (186-188), and the finally clause calls shutdown with 1 to return.
PrintStatistics ==
    /\ app_pc = "stats"
    /\ \/ /\ app_pc' = "pace"
          /\ UNCHANGED result
       \/ /\ app_pc' = ShutdownPc(ShutdownOrder[1])
          /\ result' = ReturnValue(TRUE)
    /\ UNCHANGED cache_vars
    /\ UNCHANGED <<config, running, batch_count, batch_start, batch, channel, exit_code,
                   submitted, rejected, sd_log, sig>>
    /\ UNCHANGED <<metric_vars, pace_vars>>

\* Lines 179-180: sleep_time = max(0, self.interval - batch_elapsed).
SleepTimeFullInterval(interval, elapsed) == interval
SleepTime(interval, elapsed) == IF interval - elapsed > 0 THEN interval - elapsed ELSE 0

\* Lines 179-183: sleep only if there is time left and no stop was requested.
\* batch_start is not read after line 179.
Pace ==
    /\ app_pc = "pace"
    /\ app_pc' = IF SleepTime(config.interval, now - batch_start) > 0 /\ running
                 THEN "cycle_sleep" ELSE "loop_top"
    /\ batch_start' = 0
    /\ UNCHANGED cache_vars
    /\ UNCHANGED <<config, running, batch_count, batch, channel, result,
                   exit_code, submitted, rejected, sd_log, sig>>
    /\ UNCHANGED <<metric_vars, pace_vars>>

\* Line 184: time.sleep(sleep_time).
CycleSleep ==
    /\ app_pc = "cycle_sleep"
    /\ app_pc' = "loop_top"
    /\ UNCHANGED cache_vars
    /\ UNCHANGED <<config, running, batch_count, batch_start, batch, channel, result,
                   exit_code, submitted, rejected, sd_log, sig>>
    /\ UNCHANGED <<metric_vars, pace_vars>>

\* shutdown, one step of the single try block (201-216): print_statistics or
\* close_channel returns and the next step follows, or raises and the except
\* of line 215 ends the block.
ShutdownSinkStep ==
    /\ app_pc \in {"sd_stats", "sd_close"}
    /\ sd_log' = Append(sd_log, IF app_pc = "sd_stats" THEN "stats" ELSE "close")
    /\ \/ /\ app_pc' = AfterShutdownStep(Len(sd_log) + 1)
          /\ channel' = IF app_pc = "sd_close" THEN "closed" ELSE channel
       \/ /\ app_pc' = "sd_done"
          /\ UNCHANGED channel
    /\ UNCHANGED cache_vars
    /\ UNCHANGED <<config, running, batch_count, batch_start, batch, result, exit_code,
                   submitted, rejected, sig>>
    /\ UNCHANGED <<metric_vars, pace_vars>>

\* shutdown, line 212: sensor.cleanup() is called.
ShutdownCleanup ==
    /\ app_pc = "sd_cleanup"
    /\ fg_pc = "idle"
    /\ sd_log' = Append(sd_log, "cleanup")
    /\ fg_pc' = "stop_check"
    /\ app_pc' = "sd_wait"
    /\ UNCHANGED <<simulate, sensor_cache, cache_cycle, lock, sensor_thread,
                   sensor_thread_running, t_pc, t_local, cycles, completed,
                   stop_requested, late_writes, now, fg_local>>
    /\ UNCHANGED <<config, running, batch_count, batch_start, batch, channel, result,
                   exit_code, submitted, rejected, sig>>
    /\ UNCHANGED <<metric_vars, pace_vars>>

\* shutdown, line 213: cleanup has returned.
CleanupReturned ==
    /\ app_pc = "sd_wait"
    /\ fg_pc = "idle"
    /\ app_pc' = AfterShutdownStep(Len(sd_log))
    /\ UNCHANGED cache_vars
    /\ UNCHANGED <<config, running, batch_count, batch_start, batch, channel, result,
                   exit_code, submitted, rejected, sd_log, sig>>
    /\ UNCHANGED <<metric_vars, pace_vars>>

\* Line 218, then `return 1` of line 188 or `return 0` of line 193.
ReturnFromRun ==
    /\ app_pc = "sd_done"
    /\ app_pc' = "returned"
    /\ exit_code' = result
    /\ UNCHANGED cache_vars
    /\ UNCHANGED <<config, running, batch_count, batch_start, batch, channel, result,
                   submitted, rejected, sd_log, sig>>
    /\ UNCHANGED <<metric_vars, pace_vars>>

\* ------------------------------------------- WeatherSensor: system metrics
\* The four cached metrics (lines 77-83); disk_usage, the string
\* "<free> MB", is modelled by the number it is formatted from.
MetricNames == {"cpu_temp", "cpu_usage", "memory_usage", "disk_usage"}

\* Line 84: self._system_metrics_cache_duration = 60.0.
MetricsTTL == 60

\* The value each metric has at construction and gets back in its except
\* clause (lines 78-81, 203, 211, 218, 227).
MetricDefault == 0

\* What one of the four try blocks computes: a value, or Failed when it raised.
Failed == -1
MetricValues == 1 .. MaxMetric

\* time.time() is in seconds since 1970: at construction it is far more
\* than the TTL; the smallest such clock is taken.
EpochStart == MetricsTTL

\* The clock is read just before a cache expiry, or at one.
EpochSteps == {MetricsTTL - 1, MetricsTTL}

NoReturn == [name |-> "none", value |-> 0, stamp |-> 0]

\* Lines 77-83, and no getter called yet.
MetricsConstructed ==
    /\ epoch = EpochStart
    /\ metrics = [cpu_temp |-> MetricDefault, cpu_usage |-> MetricDefault,
                  memory_usage |-> MetricDefault, disk_usage |-> MetricDefault,
                  last_update |-> 0]
    /\ m_outcome = [g \in MetricNames |-> MetricDefault]
    /\ m_ret = NoReturn
    /\ m_rec = <<>>

\* Line 195: the cache is still valid.
CacheFreshInclusive(current_time, last_update) == current_time - last_update <= MetricsTTL
CacheFresh(current_time, last_update) == current_time - last_update < MetricsTTL

\* One try/except of lines 198-227: what is stored for a metric whose cached
\* value was `old`.
StoredMetricKeepingOld(old, outcome) == IF outcome = Failed THEN old ELSE outcome
StoredMetric(old, outcome) == IF outcome = Failed THEN MetricDefault ELSE outcome

\* Lines 197-231: the four metrics recomputed, then the timestamp.
Refreshed(cache, outcome, current_time) ==
    [cpu_temp |-> StoredMetric(cache.cpu_temp, outcome["cpu_temp"]),
     cpu_usage |-> StoredMetric(cache.cpu_usage, outcome["cpu_usage"]),
     memory_usage |-> StoredMetric(cache.memory_usage, outcome["memory_usage"]),
     disk_usage |-> StoredMetric(cache.disk_usage, outcome["disk_usage"]),
     last_update |-> current_time]

\* Lines 379-383: the order in which read_sensor_data calls the getters.
GetterOrder == <<"cpu_temp", "cpu_usage", "memory_usage", "disk_usage">>

\* One getter call (lines 234-252): _update_system_metrics_cache, then the
\* cached value is returned.  The getters are called by read_sensor_data
\* only (lines 379-383), in the foreground, one after the other; after the
\* fourth the record is built and the next call starts a new record.
GetMetric(g) ==
    /\ g = GetterOrder[(Len(m_rec) % 4) + 1]
    /\ IF CacheFresh(epoch, metrics.last_update)
       THEN UNCHANGED <<metrics, m_outcome>>
       ELSE \E outcome \in [MetricNames -> {Failed} \cup MetricValues] :
                /\ metrics' = Refreshed(metrics, outcome, epoch)
                /\ m_outcome' = outcome
    /\ m_ret' = [name |-> g, value |-> metrics'[g], stamp |-> metrics'.last_update]
    /\ m_rec' = IF Len(m_rec) = 4 THEN <<metrics'.last_update>>
                ELSE Append(m_rec, metrics'.last_update)
    /\ UNCHANGED epoch
    /\ UNCHANGED <<cache_vars, app_vars, pace_vars>>

\* The clock of the metrics cache advances.
EpochTick ==
    /\ \E d \in EpochSteps :
           /\ epoch + d <= EpochStart + MaxEpoch
           /\ epoch' = epoch + d
    /\ UNCHANGED <<metrics, m_outcome, m_ret, m_rec>>
    /\ UNCHANGED <<cache_vars, app_vars, pace_vars>>

\* --------------------------------------------------- the timing of one cycle
\* Time in the timed cycle is counted in ticks of 1/(20 * count) second, so
\* that 0.05 s, 0.5 s and interval / count s are whole numbers of ticks.
TicksPerSecond(count) == 20 * count

\* weather_main.py lines 143-154: the `interval` argument run passes to
\* read_batch: 0.05 in fast mode, else max(0.5, self.interval / self.batch_size).
IntervalArgumentUnclamped(cfg) ==
    IF cfg.fast_mode THEN cfg.batch_size ELSE 20 * cfg.interval
IntervalArgument(cfg) ==
    IF cfg.fast_mode THEN cfg.batch_size
    ELSE IF 10 * cfg.batch_size > 20 * cfg.interval THEN 10 * cfg.batch_size
         ELSE 20 * cfg.interval

\* weather_sensor.py line 441: actual_interval = 0.05 if fast_mode else interval.
ActualInterval(interval, fast_mode, count) == IF fast_mode THEN count ELSE interval

\* Configurations of the timed cycle.
PaceConfigs ==
    [batch_size : 1 .. MaxPaceBatch, interval : 0 .. MaxPaceInterval, fast_mode : BOOLEAN]

\* Whole seconds a read, the sink, or an overlong sleep may take.
WorkSeconds == 0 .. MaxWork

\* No timed cycle.
PaceIdle ==
    /\ p_cfg = [batch_size |-> 1, interval |-> 0, fast_mode |-> FALSE]
    /\ p_pc = "none"
    /\ p_collected = 0
    /\ p_delays = <<>>
    /\ p_elapsed = 0
    /\ p_busy = 0
    /\ p_sleep = 0
    /\ p_period = -1

\* run has reached the loop (line 134), the flag is up and stays up.
PaceInit ==
    /\ p_cfg \in PaceConfigs
    /\ p_pc = "loop_top"
    /\ p_collected = 0
    /\ p_delays = <<>>
    /\ p_elapsed = 0
    /\ p_busy = 0
    /\ p_sleep = 0
    /\ p_period = -1

\* weather_main.py lines 134-136: a cycle starts, batch_start = time.time().
TimedLoopTop ==
    /\ p_pc = "loop_top"
    /\ p_pc' = "read"
    /\ p_collected' = 0
    /\ p_delays' = <<>>
    /\ p_elapsed' = 0
    /\ p_busy' = 0
    /\ p_sleep' = 0
    /\ UNCHANGED <<p_cfg, p_period>>
    /\ UNCHANGED <<cache_vars, app_vars, metric_vars>>

\* weather_sensor.py lines 443-447: one record is read (taking w seconds)
\* and appended.
TimedRead ==
    /\ p_pc = "read"
    /\ CollectMore(p_collected, p_cfg.batch_size, TRUE)
    /\ \E w \in WorkSeconds :
           /\ p_busy + w * TicksPerSecond(p_cfg.batch_size)
                  <= MaxWork * TicksPerSecond(p_cfg.batch_size)
           /\ p_busy' = p_busy + w * TicksPerSecond(p_cfg.batch_size)
           /\ p_elapsed' = p_elapsed + w * TicksPerSecond(p_cfg.batch_size)
    /\ p_collected' = p_collected + 1
    /\ p_pc' = IF SleepAfter(p_collected, p_cfg.batch_size) THEN "delay" ELSE "read"
    /\ UNCHANGED <<p_cfg, p_delays, p_sleep, p_period>>
    /\ UNCHANGED <<cache_vars, app_vars, metric_vars>>

\* weather_sensor.py line 448: time.sleep(actual_interval), which lasts the
\* time asked for and w seconds more.
TimedDelay ==
    /\ p_pc = "delay"
    /\ \E w \in WorkSeconds :
           /\ p_busy + w * TicksPerSecond(p_cfg.batch_size)
                  <= MaxWork * TicksPerSecond(p_cfg.batch_size)
           /\ p_busy' = p_busy + w * TicksPerSecond(p_cfg.batch_size)
           /\ p_elapsed' = p_elapsed + w * TicksPerSecond(p_cfg.batch_size)
                  + ActualInterval(IntervalArgument(p_cfg), p_cfg.fast_mode, p_cfg.batch_size)
    /\ p_delays' = Append(p_delays,
           [after |-> p_collected,
            ticks |-> ActualInterval(IntervalArgument(p_cfg), p_cfg.fast_mode, p_cfg.batch_size)])
    /\ p_pc' = "read"
    /\ UNCHANGED <<p_cfg, p_collected, p_sleep, p_period>>
    /\ UNCHANGED <<cache_vars, app_vars, metric_vars>>

\* weather_sensor.py line 450 and weather_main.py lines 156-176: read_batch
\* returns and the sink takes w seconds.
TimedInsert ==
    /\ p_pc = "read"
    /\ ~CollectMore(p_collected, p_cfg.batch_size, TRUE)
    /\ \E w \in WorkSeconds :
           /\ p_busy + w * TicksPerSecond(p_cfg.batch_size)
                  <= MaxWork * TicksPerSecond(p_cfg.batch_size)
           /\ p_busy' = p_busy + w * TicksPerSecond(p_cfg.batch_size)
           /\ p_elapsed' = p_elapsed + w * TicksPerSecond(p_cfg.batch_size)
    /\ p_pc' = "pace"
    /\ UNCHANGED <<p_cfg, p_collected, p_delays, p_sleep, p_period>>
    /\ UNCHANGED <<cache_vars, app_vars, metric_vars>>

\* weather_main.py lines 179-183: sleep_time is computed from the time since
\* batch_start; without a sleep the next cycle follows at once.
TimedPace ==
    /\ p_pc = "pace"
    /\ p_sleep' = SleepTime(p_cfg.interval * TicksPerSecond(p_cfg.batch_size), p_elapsed)
    /\ IF p_sleep' > 0
       THEN /\ p_pc' = "cycle_sleep"
            /\ UNCHANGED p_period
       ELSE /\ p_pc' = "loop_top"
            /\ p_period' = p_elapsed
    /\ UNCHANGED <<p_cfg, p_collected, p_delays, p_elapsed, p_busy>>
    /\ UNCHANGED <<cache_vars, app_vars, metric_vars>>

\* weather_main.py line 184: time.sleep(sleep_time), which lasts the time
\* asked for and w seconds more; then the next cycle starts.
TimedCycleSleep ==
    /\ p_pc = "cycle_sleep"
    /\ \E w \in WorkSeconds :
           p_period' = p_elapsed + p_sleep + w * TicksPerSecond(p_cfg.batch_size)
    /\ p_pc' = "loop_top"
    /\ UNCHANGED <<p_cfg, p_collected, p_delays, p_elapsed, p_busy, p_sleep>>
    /\ UNCHANGED <<cache_vars, app_vars, metric_vars>>

\* --------------------------------------------------------- specification
\* The sensor object as the repository uses it: constructed (which starts the
\* one background thread, line 110), then read and cleaned up by one
\* foreground caller, any number of times and in any order.
Init == SensorInit /\ AppAbsent /\ MetricsConstructed /\ PaceIdle

Next ==
    \/ \E t \in Threads : ThreadStep(t)
    \/ CallRead
    \/ AcquireForRead
    \/ CopyField
    \/ ComputeAge
    \/ ReturnRecord
    \/ CallCleanup
    \/ RequestStop
    \/ CheckAlive
    \/ Join
    \/ ClockTick

Spec == Init /\ [][Next]_vars

\* The same under the scheduling the code relies on: a thread that can run
\* does run, and gets the lock when it is released again and again (a poll
\* that never returns is a step that is never enabled); a `with` block that
\* has been entered is run to its end.
SpecLive ==
    /\ Spec
    /\ \A t \in Threads : SF_vars(ThreadStep(t))
    /\ WF_vars(CopyField)
    /\ WF_vars(ComputeAge)

\* The application: run() from the constructed state, with stop signals at
\* any moment from line 125 on (an earlier signal finds the flag down and
\* changes nothing that run reads; SpecSignal has it).  The background thread's first poll has not returned (a poll
\* has no timeout), so every reading is the cache as constructed; nothing in
\* run or shutdown branches on a reading.
InitApp == SensorInit /\ ~simulate /\ AppInit /\ MetricsConstructed /\ PaceIdle

NextApp ==
    \/ Signal
    \/ Discover
    \/ OpenChannel
    \/ SetRunning
    \/ LoopTop
    \/ BatchRead
    \/ AcquireForRead
    \/ CopyField
    \/ ComputeAge
    \/ BatchAppend
    \/ BatchSleep
    \/ BatchReturn
    \/ InsertRows
    \/ PrintStatistics
    \/ Pace
    \/ CycleSleep
    \/ ShutdownSinkStep
    \/ ShutdownCleanup
    \/ RequestStop
    \/ CheckAlive
    \/ Join
    \/ CleanupReturned
    \/ ReturnFromRun
    \/ ClockTick

SpecApp == InitApp /\ [][NextApp]_vars

\* The application with stop signals from the moment the handlers are
\* installed (line 79-80), initialization included.
NextSignal ==
    \/ NextApp
    \/ SignalWhileInitializing

SpecSignal == InitApp /\ [][NextSignal]_vars

\* The same, with a caller that also calls _start_sensor_thread again.
NextStart ==
    \/ Next
    \/ StartSensorThread

SpecStart == Init /\ [][NextStart]_vars

\* The system-metrics cache of one sensor object, its getters called at any
\* moment of the clock.
InitMetrics == Init

NextMetrics ==
    \/ \E g \in MetricNames : GetMetric(g)
    \/ EpochTick

SpecMetrics == InitMetrics /\ [][NextMetrics]_vars

\* The timing of the cycles of run, with the flag up: every configuration,
\* reads, sink and sleeps that take their time.
InitPace == SensorInit /\ ~simulate /\ AppAbsent /\ MetricsConstructed /\ PaceInit

NextPace ==
    \/ TimedLoopTop
    \/ TimedRead
    \/ TimedDelay
    \/ TimedInsert
    \/ TimedPace
    \/ TimedCycleSleep

SpecPace == InitPace /\ [][NextPace]_vars

\* ------------------------------------------------------------------ claims
\* The positions of _update_sensor_cache inside the `with` block (334-342).
StorePcs == {"store", "store_time", "load_count", "store_count"}

FieldIndex == 1 .. NumFields

\* C1: the six fields one read_sensor_data call has copied were all stored by
\* the same refresh cycle, whatever the interleaving with the background
\* refresh.
C1_ReadIsOneCycle ==
    fg_pc \in {"rsd_age", "rsd_return"} =>
        \A i, j \in FieldIndex : fg_local.cyc[i] = fg_local.cyc[j]

\* C1 witness: a read returns the fields of a published cycle while the
\* refresh of a later cycle is waiting for the lock the read held.
C1_Witness ==
    /\ fg_pc = "rsd_return"
    /\ fg_local.cyc[1] >= 1
    /\ \E t \in Threads : t_pc[t] = "acquire" /\ t_local[t].cycle > fg_local.cyc[NumFields]

\* C2 (as claimed): a refresh whose poll failed leaves the six published
\* values as they were, so that later reads return the values from before the
\* failed poll.
C2_FailedPollKeepsSnapshot ==
    [][\A t \in Threads :
          (t_pc[t] \in StorePcs /\ t_local[t].failed) =>
              \A i \in FieldIndex : sensor_cache'[Fields[i]] = sensor_cache[Fields[i]]]_vars

\* C3 (as claimed): at most one background update task is alive, however
\* often _start_sensor_thread has been called.
C3_AtMostOneTask == Cardinality({t \in Threads : IsAlive(t)}) <= 1

\* C4 (as claimed): after the stop request a task stores to the cache at most
\* once, and a refresh that starts storing after the request is one entered
\* behind the running check of line 292.
C4_LateWriteWasChecked ==
    \A t \in Threads :
        /\ late_writes[t] <= 1
        /\ (t_pc[t] \in StorePcs /\ t_local[t].late) => t_local[t].checked

\* C4 (amended): after the stop request a task completes at most one refresh
\* (entered behind the check of line 292, or the unchecked initial read of
\* line 282), and after that one it only leaves the loop.
C4_AtMostOneLateWrite ==
    \A t \in Threads :
        /\ late_writes[t] <= 1
        /\ late_writes[t] = 1 => t_pc[t] \in {"while_check", "exited"}

\* C4 witness: the stop has been requested, _stop_sensor_thread has returned,
\* and the task has stored once after the request and exited.
C4_Witness ==
    /\ stop_requested
    /\ fg_pc = "idle"
    /\ \E t \in Threads : late_writes[t] = 1 /\ t_pc[t] = "exited"

\* C5: no thread owns the cache lock while its hardware poll is in progress,
\* and a read that holds the lock has copied the values published last.
C5_PollOutsideGuard ==
    /\ \A t \in Threads : t_pc[t] = "poll" => lock # t
    /\ fg_pc = "rsd_age" => \A i \in FieldIndex : fg_local.vals[i] = sensor_cache[Fields[i]]

\* C5 witness: a read that took the lock while a poll was in progress has
\* completed with the values of a published refresh, the poll still running.
C5_Witness ==
    /\ fg_pc = "rsd_return"
    /\ fg_local.polling
    /\ fg_local.vals[1] \in Readings
    /\ \E t \in Threads : t_pc[t] = "poll"

\* C6: update_count is the number of refreshes completed so far; a step
\* leaves it alone or adds one, and never moves last_update backwards.
C6_CountsRefreshes ==
    /\ [](sensor_cache.update_count = completed)
    /\ [][/\ sensor_cache'.update_count \in {sensor_cache.update_count,
                                             sensor_cache.update_count + 1}
          /\ sensor_cache'.last_update >= sensor_cache.last_update]_vars

\* C6 witness: a second refresh has completed, at a later clock reading than
\* the first.
C6_Witness ==
    /\ sensor_cache.update_count >= 2
    /\ completed >= 2
    /\ sensor_cache.last_update >= 1

\* The positions of shutdown (lines 195-218).
ShutdownPcs == {"sd_stats", "sd_close", "sd_cleanup", "sd_wait", "sd_done"}

\* C7: a rejected batch is dropped and nothing else changes: every cycle that
\* was started passes its batch to insert_rows exactly once, in order; the
\* step that rejects a batch leaves the running flag and the value to return
\* alone and goes on in the same cycle; run returns 1 only from a cycle that
\* requests statistics; and the run of five cycles that rejects only cycle 2
\* has had 1, 3, 4 and 5 accepted and returns 0.
C7_InsertFailureContained ==
    /\ [](/\ \A i \in 1 .. Len(submitted) : submitted[i] = i
          /\ Len(submitted) = IF app_pc \in {"collect", "batch_sleep", "insert"}
                               THEN batch_count - 1 ELSE batch_count
          /\ rejected \subseteq 1 .. Len(submitted)
          /\ (exit_code = 1 /\ batch_count >= 1) => batch_count % 10 = 0
          /\ (app_pc = "returned" /\ batch_count = 5 /\ rejected = {2}) =>
                 ({submitted[i] : i \in 1 .. Len(submitted)} \ rejected = {1, 3, 4, 5}
                  /\ exit_code = 0))
    /\ [][rejected' # rejected =>
             /\ running' = running
             /\ result' = result
             /\ batch_count' = batch_count
             /\ app_pc' \in {"stats", "pace"}]_vars

\* C7 witness: five cycles, the sink rejected the second only, run returned 0.
C7_Witness ==
    /\ app_pc = "returned"
    /\ exit_code = 0
    /\ submitted = <<1, 2, 3, 4, 5>>
    /\ rejected = {2}

\* C8 (as claimed): when shutdown has finished, all three steps have been
\* attempted, whichever of them failed.
C8_ShutdownBestEffort ==
    app_pc = "sd_done" => sd_log = <<"stats", "close", "cleanup">>

\* C9: shutdown attempts its steps in the order statistics, close, cleanup and
\* never one of them before an earlier one: the channel is not closed before
\* the statistics request, nor the background thread stopped before the close.
C9_ShutdownInOrder ==
    /\ Len(sd_log) <= 3
    /\ \A i \in 1 .. Len(sd_log) : sd_log[i] = <<"stats", "close", "cleanup">>[i]
    /\ channel = "closed" => Len(sd_log) >= 2
    /\ (stop_requested \/ fg_pc \in {"stop_check", "stop_alive", "join"}) => Len(sd_log) = 3

\* C9 witness: a shutdown that went through all three steps.
C9_Witness ==
    /\ app_pc = "returned"
    /\ sd_log = <<"stats", "close", "cleanup">>
    /\ channel = "closed"
    /\ stop_requested

\* C10: a stop signal that arrives inside a cycle does not cut the cycle
\* short: every list passed to insert_rows has batch_size readings, no cycle
\* is started after the signal, and shutdown is entered only when the batch of
\* the signalled cycle has been passed to insert_rows.
C10_StopOnlyAtLoopTop ==
    /\ app_pc = "insert" => Len(batch) = config.batch_size
    /\ sig.cycle # 0 => batch_count = sig.cycle
    /\ (sig.cycle # 0 /\ app_pc \in ShutdownPcs \cup {"returned"}) =>
           (Len(submitted) = sig.cycle /\ submitted[sig.cycle] = sig.cycle)

\* C10 witness: the signal came when one of the two readings of cycle 2 had
\* been collected; the cycle was submitted and run returned 0.
C10_Witness ==
    /\ app_pc = "returned"
    /\ exit_code = 0
    /\ config.batch_size = 2
    /\ sig.cycle = 2
    /\ sig.collected = 1
    /\ submitted = <<1, 2>>

\* C11: a failure of discover_ingest_host or of open_channel ends run at
\* once with 1: the running flag is never raised without an open channel, and
\* when run has returned with the channel not opened, no cycle was started,
\* nothing was passed to insert_rows and the flag is down.
C11_StartupFailureAborts ==
    /\ []((app_pc = "returned" /\ channel \in {"new", "discovered"}) =>
             /\ exit_code = 1
             /\ ~running
             /\ batch_count = 0
             /\ batch = <<>>
             /\ submitted = <<>>)
    /\ [](app_pc \in CyclePcs => channel = "open")
    /\ [](running => channel \in {"open", "closed"})
    /\ [][(~running /\ running') => channel' = "open"]_vars

\* C11 witness: open_channel failed after a successful discovery and run has
\* returned 1.
C11_Witness ==
    /\ app_pc = "returned"
    /\ channel = "discovered"
    /\ exit_code = 1

\* C12: run returns 0 or 1 and nothing else.  It returns at once with 1
\* exactly from a failed initialize; it leaves the loop for shutdown with 0 to
\* return exactly when the loop test found the flag down, and with 1 exactly
\* when the call inside the loop body raised; shutdown does not change the
\* value, and run returns it.
C12_ExitCodes ==
    /\ [](exit_code \in {-1, 0, 1} /\ (app_pc = "returned" <=> exit_code \in {0, 1}))
    /\ []((app_pc = "returned" /\ exit_code = 0) => (~running /\ channel \in {"open", "closed"}))
    /\ [][(app_pc \notin ShutdownPcs /\ app_pc' \in ShutdownPcs) =>
             ((app_pc = "loop_top" /\ ~running /\ result' = 0)
               \/ (app_pc = "stats" /\ result' = 1))]_vars
    /\ [][(app_pc \in ShutdownPcs) => result' = result]_vars
    /\ [][exit_code' # exit_code =>
             ((app_pc \in {"discover", "open"} /\ channel' # "open" /\ exit_code' = 1)
               \/ (app_pc = "sd_done" /\ exit_code' = result))]_vars

\* C12 witness: print_statistics raised at the end of cycle 10 and run has
\* returned 1 after a complete shutdown.
C12_Witness ==
    /\ app_pc = "returned"
    /\ exit_code = 1
    /\ batch_count = 10
    /\ sd_log = <<"stats", "close", "cleanup">>

\* C13 (as claimed): whenever run has returned, the background thread has
\* been asked to stop.
C13_StoppedOnEveryReturn ==
    app_pc = "returned" => stop_requested

\* C14: the list read_batch returns has exactly `count` records, in the order
\* they were read, with non-decreasing timestamps, in normal and in fast mode.
C14_BatchIsComplete ==
    /\ app_pc \in {"collect", "batch_sleep", "insert"} =>
           /\ Len(batch) <= config.batch_size
           /\ \A i, j \in 1 .. Len(batch) : i <= j => batch[i].ts <= batch[j].ts
    /\ app_pc = "batch_sleep" => Len(batch) >= 1
    /\ app_pc = "insert" => Len(batch) = config.batch_size /\ Len(batch) >= 1

\* C14 witness: a fast-mode batch of two records read at different times.
C14_Witness ==
    /\ app_pc = "insert"
    /\ config.fast_mode
    /\ Len(batch) = 2
    /\ batch[1].ts < batch[2].ts

\* C20: inside the loop print_statistics is called at the end of a cycle
\* exactly when the cycle's number is a multiple of 10, whether or not its
\* insert failed, and from nowhere else in the loop.
C20_StatisticsEveryTenth ==
    /\ [](app_pc = "stats" => (batch_count >= 10 /\ batch_count % 10 = 0
                                /\ Len(submitted) = batch_count))
    /\ [][(app_pc = "insert" /\ app_pc' # "insert") =>
             (app_pc' = "stats" <=> batch_count % 10 = 0)]_vars
    /\ [][(app_pc # "stats" /\ app_pc' = "stats") =>
             (app_pc = "insert" /\ batch_count' = batch_count)]_vars

\* C20 witness: the insert of cycle 10 failed and statistics are requested.
C20_Witness ==
    /\ app_pc = "stats"
    /\ batch_count = 10
    /\ rejected = {10}

\* The age of the metrics cache as line 195 computes it.
MetricsAge == epoch - metrics.last_update

\* C15: a getter call made while the cache is younger than 60 s leaves the
\* cache and its timestamp as they are, and two calls of the same getter
\* under the same timestamp return the same value; a call made when the age
\* has reached 60 s sets the timestamp to a strictly greater value, and the
\* timestamp changes in no other way.
C15_MetricsTTL ==
    /\ [](m_ret.name # "none" =>
             (m_ret.stamp = metrics.last_update => m_ret.value = metrics[m_ret.name]))
    /\ [][(epoch' = epoch /\ MetricsAge < 60) => metrics' = metrics]_vars
    /\ [][(m_ret.name # "none" /\ m_ret'.name = m_ret.name /\ m_ret'.stamp = m_ret.stamp) =>
             m_ret'.value = m_ret.value]_vars
    /\ [][(m_ret' # m_ret /\ MetricsAge >= 60) =>
             (metrics'.last_update > metrics.last_update /\ m_ret'.stamp = metrics'.last_update)]_vars
    /\ [][metrics'.last_update # metrics.last_update =>
             (MetricsAge >= 60 /\ metrics'.last_update > metrics.last_update)]_vars

\* C15 witness: the cache was refreshed a second time exactly at the age of
\* 60 s, and a getter has since returned under that timestamp, 59 s later.
C15_Witness ==
    /\ metrics.last_update = EpochStart + 60
    /\ epoch = metrics.last_update + 59
    /\ m_ret.name = "cpu_usage"
    /\ m_ret.stamp = metrics.last_update

\* C16: a refresh stores, for each of the four metrics on its own, the
\* default if its computation failed and the computed value if not, and sets
\* the timestamp to the time of the call whatever failed; until the age
\* reaches 60 s again nothing is recomputed, so a failed metric stays at its
\* default.
C16_MetricFailuresIndependent ==
    /\ [](metrics.last_update # 0 =>
             \A g \in MetricNames :
                 metrics[g] = IF m_outcome[g] = -1 THEN 0 ELSE m_outcome[g])
    /\ [][(epoch' = epoch /\ m_ret' # m_ret /\ MetricsAge >= 60) =>
             metrics'.last_update = epoch]_vars
    /\ [][MetricsAge < 60 => (m_outcome' = m_outcome /\
             \A g \in MetricNames : metrics'[g] = metrics[g])]_vars

\* C16 witness: in the second refresh cpu_temp and disk_usage failed and the
\* other two were computed to 1; 59 s later cpu_temp is returned, still 0.
C16_Witness ==
    /\ metrics.last_update > EpochStart
    /\ m_outcome = [cpu_temp |-> -1, cpu_usage |-> 1, memory_usage |-> 1, disk_usage |-> -1]
    /\ metrics.cpu_temp = 0 /\ metrics.cpu_usage = 1
    /\ metrics.memory_usage = 1 /\ metrics.disk_usage = 0
    /\ epoch = metrics.last_update + 59
    /\ m_ret = [name |-> "cpu_temp", value |-> 0, stamp |-> metrics.last_update]

\* C17: the sleep at the end of a cycle is interval - elapsed when that is
\* positive, elapsed counted from the start of the cycle, and there is no
\* sleep when elapsed >= interval; so a cycle never lasts less than the
\* interval, and a cycle that overran is not followed by a shortened one.
\* With batch_size 3, interval 6 s, normal mode and nothing but the requested
\* sleeps taking time, collection takes 4 s and the sleep is 2 s.
C17_CyclePacing ==
    /\ [](p_pc = "cycle_sleep" =>
             /\ p_sleep > 0
             /\ p_sleep + p_elapsed = p_cfg.interval * 20 * p_cfg.batch_size)
    /\ [](p_period # -1 => p_period >= p_cfg.interval * 20 * p_cfg.batch_size)
    /\ []((p_pc = "cycle_sleep" /\ p_busy = 0
            /\ p_cfg = [batch_size |-> 3, interval |-> 6, fast_mode |-> FALSE]) =>
             (p_elapsed = 4 * 60 /\ p_sleep = 2 * 60))
    /\ [][p_pc = "pace" =>
             IF p_elapsed >= p_cfg.interval * 20 * p_cfg.batch_size
             THEN p_pc' = "loop_top" /\ p_period' = p_elapsed
             ELSE p_pc' = "cycle_sleep"]_vars

\* C17 witness: the scenario, about to sleep 2 s after 4 s of collection.
C17_Witness ==
    /\ p_pc = "cycle_sleep"
    /\ p_cfg = [batch_size |-> 3, interval |-> 6, fast_mode |-> FALSE]
    /\ p_busy = 0
    /\ p_elapsed = 240
    /\ p_sleep = 120

\* C18: every delay asked for between two records is 50 ms in fast mode,
\* whatever the interval, and the larger of 0.5 s and interval / batch_size
\* seconds in normal mode (d ticks are d / (20 * batch_size) seconds).
C18_InterRecordDelay ==
    \A i \in 1 .. Len(p_delays) :
        IF p_cfg.fast_mode
        THEN 1000 * p_delays[i].ticks = 50 * 20 * p_cfg.batch_size
        ELSE /\ 2 * p_delays[i].ticks >= 20 * p_cfg.batch_size
             /\ p_delays[i].ticks * p_cfg.batch_size >= p_cfg.interval * 20 * p_cfg.batch_size
             /\ \/ 2 * p_delays[i].ticks = 20 * p_cfg.batch_size
                \/ p_delays[i].ticks * p_cfg.batch_size = p_cfg.interval * 20 * p_cfg.batch_size

\* C18 witness: fast mode, batch_size 5, interval 6 s: four delays of 50 ms.
C18_Witness ==
    /\ p_cfg = [batch_size |-> 5, interval |-> 6, fast_mode |-> TRUE]
    /\ p_pc = "pace"
    /\ Len(p_delays) = 4
    /\ \A i \in 1 .. 4 : p_delays[i].ticks = 5

\* C19: the i-th delay of a batch comes after the i-th record and before the
\* next; a batch of N records has had N - 1 delays when it is returned, none
\* after the last record, and a batch of one record none at all.
C19_DelaysBetweenRecords ==
    /\ \A i \in 1 .. Len(p_delays) : p_delays[i].after = i /\ i < p_cfg.batch_size
    /\ p_pc = "delay" => (Len(p_delays) = p_collected - 1 /\ p_collected < p_cfg.batch_size)
    /\ p_pc = "read" =>
           Len(p_delays) = IF p_collected = p_cfg.batch_size THEN p_collected - 1
                           ELSE p_collected
    /\ p_pc \in {"pace", "cycle_sleep"} =>
           (p_collected = p_cfg.batch_size /\ Len(p_delays) = p_cfg.batch_size - 1)
    /\ (p_cfg.batch_size = 1 /\ p_pc # "loop_top") => (p_delays = <<>> /\ p_elapsed = p_busy)

\* C19 witness: a batch of three records returned after two delays.
C19_Witness ==
    /\ p_pc = "pace"
    /\ p_cfg.batch_size = 3
    /\ p_collected = 3
    /\ Len(p_delays) = 2
    /\ p_delays[2].after = 2

\* C21 (as claimed): in every run open_channel is called: when run has
\* returned, the channel has been past discovery.
C21_OpenedInEveryRun ==
    app_pc = "returned" => channel # "new"

\* C21 (amended): discover_ingest_host is called once, open_channel at most
\* once and only after a successful discovery (exactly once then); the
\* channel goes from discovered to open to closed and never back, every
\* insert_rows call finds it open and leaves it open, also a failing one.
C21_ChannelLifecycle ==
    /\ [](app_pc = "insert" => channel = "open")
    /\ []((channel = "new" /\ app_pc # "discover") => (app_pc = "returned" /\ exit_code = 1))
    /\ []((channel = "discovered" /\ app_pc # "open") => (app_pc = "returned" /\ exit_code = 1))
    /\ [][channel' # channel =>
             \/ (app_pc = "discover" /\ channel = "new" /\ channel' = "discovered")
             \/ (app_pc = "open" /\ channel = "discovered" /\ channel' = "open")
             \/ (app_pc = "sd_close" /\ channel = "open" /\ channel' = "closed")]_vars
    /\ [][(app_pc' = "discover") => (app_pc = "discover")]_vars
    /\ [][(app_pc' = "open") => (app_pc = "open" \/ (app_pc = "discover" /\ channel' = "discovered"))]_vars
    /\ [][(app_pc = "discover" /\ channel' = "discovered") => app_pc' = "open"]_vars
    /\ [][submitted' # submitted => (channel = "open" /\ channel' = "open")]_vars

\* C21 witness: a run whose second insert failed, with a third insert after
\* it, has closed the channel and returned.
C21_Witness ==
    /\ app_pc = "returned"
    /\ channel = "closed"
    /\ rejected = {2}
    /\ submitted = <<1, 2, 3>>

\* C22: once the stop is requested, a task in its inter-poll wait leaves
\* the wait at its next tick without sleeping again, goes on to the loop test
\* and from there to its end, with no poll on the way; and a task whose poll
\* returns has exited some time after the stop request.
C22_StopNoticedWithinOneTick ==
    /\ [][\A t \in Threads :
             (stop_requested /\ t_pc[t] = "tick") =>
                 \/ (t_pc'[t] = "tick" /\ t_local'[t] = t_local[t])
                 \/ t_pc'[t] = "post_tick"]_vars
    /\ [][\A t \in Threads :
             (stop_requested /\ t_pc[t] = "post_tick") =>
                 t_pc'[t] \in {"post_tick", "while_check"}]_vars
    /\ [][\A t \in Threads :
             (stop_requested /\ t_pc[t] = "while_check") =>
                 t_pc'[t] \in {"while_check", "exited"}]_vars
    /\ \A t \in Threads :
           (stop_requested /\ IsAlive(t) /\ cycles < MaxRefresh) ~> (t_pc[t] = "exited")

\* C22 witness: the task has exited after a stop request without a store
\* after it: the request came between two refreshes.
C22_Witness ==
    /\ stop_requested
    /\ t_pc[1] = "exited"
    /\ late_writes[1] = 0
    /\ completed >= 1
    /\ cycles = completed

\* C23 (as claimed): a print_statistics call of the loop that fails leaves
\* the run in its loop: from the statistics request run goes on to the pacing
\* of the same cycle.
C23_StatisticsFailureHarmless ==
    [][(app_pc = "stats") => (app_pc' \in {"stats", "pace"})]_vars

\* C24 (as claimed): after a stop signal received during initialization no
\* cycle is started.
C24_EarlySignalNotLost ==
    sig.early => app_pc \notin CyclePcs

\* C25 (as claimed): the four system metrics of one record come from the
\* same refresh of the metrics cache.
C25_OneMetricsSnapshot ==
    \A i, j \in 1 .. Len(m_rec) : m_rec[i] = m_rec[j]

\* C26: a step of the foreground (read_sensor_data, and so read_batch, or
\* cleanup) leaves the six values, last_update and update_count of the sensor
\* cache as they are; the sensor cache changes only in a step of a background
\* task that holds the lock inside _update_sensor_cache; and a step of a
\* background task leaves the system-metrics cache as it is.
C26_OneWriterPerCache ==
    /\ [][(fg_pc' # fg_pc \/ fg_local' # fg_local) => sensor_cache' = sensor_cache]_vars
    /\ [][sensor_cache' # sensor_cache =>
             \E t \in Threads :
                 /\ t_pc[t] \in StorePcs
                 /\ lock = t
                 /\ (t_pc'[t] # t_pc[t] \/ t_local'[t] # t_local[t])
                 /\ fg_pc' = fg_pc
                 /\ fg_local' = fg_local]_vars
    /\ [][(t_pc' # t_pc \/ t_local' # t_local) => metrics' = metrics]_vars

\* C26 witness: a read has copied the values a refresh stored and is about
\* to return, the cache as the refresh left it.
C26_Witness ==
    /\ fg_pc = "rsd_return"
    /\ completed >= 1
    /\ sensor_cache.update_count = completed
    /\ sensor_cache.temperature >= 1
    /\ fg_local.vals[1] = sensor_cache.temperature

====
